---- MODULE Spec2Model ----
(***************************************************************************)
(* HmSearch: an in-memory index for Hamming-distance range search over     *)
(* fixed-length keys (hmsearch.hpp, namespace hmsearch) together with the  *)
(* test driver that compares it against a brute-force scan.                *)
(*                                                                         *)
(* Conventions.  A key is a sequence of symbols; position p of the C++     *)
(* array is element p+1 here.  Key ids are 0-based as in the code: id i is *)
(* keys[i+1].  A 64-bit machine word used as a bit set (vertical code) is  *)
(* the set of its 1-bit positions; the 64-bit FNV hash is a sequence of 8  *)
(* bytes, least significant first, so that every product stays small.      *)
(* uint32_t is an unsigned word of WordBits bits.                          *)
(***************************************************************************)
EXTENDS Integers, Sequences, FiniteSets, TLC

\* ------------------------------------------------------------------ bounds
MaxLen == 4        \* longest key the inputs enumerate
MaxKeys == 2       \* largest enumerated key collection
MaxRange == 3      \* largest Hamming range given to search
WordBits == 5      \* width of the word that stands for uint32_t

\* ------------------------------------------------------- program constants
UINT32_MAX == 2^WordBits - 1
LengthLimit == 64
FnvInit == <<37, 35, 34, 132, 228, 156, 242, 203>>   \* 0xcbf29ce484222325
FnvMulLow == 435                                     \* 0x1b3
FnvMulShift == 5                                     \* 0x100000001b3 = 2^40 + 0x1b3
LoadFactorNum == 3                                   \* LOAD_FACTOR = 1.5 = 3/2
LoadFactorDen == 2

Min(a, b) == IF a < b THEN a ELSE b

\* ------------------------------------------------------------ bit helpers
RECURSIVE BitXor(_, _)
BitXor(a, b) ==
    IF a = 0 THEN b
    ELSE IF b = 0 THEN a
    ELSE ((a + b) % 2) + 2 * BitXor(a \div 2, b \div 2)

\* bit `level` of x, as (x >> level) & 1
BitAt(x, level) == (x \div (2^level)) % 2

\* sdsl::bits::hi: position of the most significant set bit, 0 for x = 0
RECURSIVE bits_hi(_)
bits_hi(x) == IF x <= 1 THEN 0 ELSE 1 + bits_hi(x \div 2)

\* an sdsl::int_vector element of the given width keeps the low `width` bits
IntVecStore(v, width) == v % (2^width)

\* ---------------------------------------------------------------- fnv1a
\* byte k (1 = least significant) of a 32-bit key element
WordByte(x, k) == (x \div (256^(k-1))) % 256

\* hash ^= key[i]
HashXor(h, x) ==
    [k \in 1..8 |-> IF k <= 4 THEN BitXor(h[k], WordByte(x, k)) ELSE h[k]]

RECURSIVE MulBytes(_, _, _, _)
MulBytes(h, m, k, carry) ==
    IF k > 8 THEN <<>>
    ELSE LET t == h[k] * m + carry
         IN  <<t % 256>> \o MulBytes(h, m, k + 1, t \div 256)

RECURSIVE AddBytes(_, _, _, _)
AddBytes(a, b, k, carry) ==
    IF k > 8 THEN <<>>
    ELSE LET t == a[k] + b[k] + carry
         IN  <<t % 256>> \o AddBytes(a, b, k + 1, t \div 256)

\* hash *= multiplier  (mod 2^64)
HashMul(h) ==
    LET low == MulBytes(h, FnvMulLow, 1, 0)
        shifted == [k \in 1..8 |-> IF k > FnvMulShift THEN h[k - FnvMulShift] ELSE 0]
    IN  AddBytes(low, shifted, 1, 0)

RECURSIVE fnv1a_from(_, _, _)
fnv1a_from(hash, key, i) ==
    IF i > Len(key) THEN hash
    ELSE fnv1a_from(HashMul(HashXor(hash, key[i])), key, i + 1)

fnv1a_hash(key) == fnv1a_from(FnvInit, key, 1)

\* hash % m for m >= 1, most significant byte first
RECURSIVE HashModFrom(_, _, _, _)
HashModFrom(h, m, k, rem) ==
    IF k = 0 THEN rem ELSE HashModFrom(h, m, k - 1, (rem * 256 + h[k]) % m)

HashMod(h, m) == HashModFrom(h, m, 8, 0)


\* --------------------------------------------------------- the platform
\* std::unordered_map iterates in an unspecified order: the order elements
\* were first inserted in, or its reverse.
IterOrders == {"forward", "reverse"}

Reverse(s) == [k \in 1..Len(s) |-> s[Len(s) + 1 - k]]

IterOrder(s, order) == IF order = "forward" THEN s ELSE Reverse(s)

\* `hash % m_table.size()` with an empty table is undefined behaviour: the
\* process is killed by the division trap, or the wild read that follows
\* finds what looks like a vacant slot.
DivZeroOutcomes == {"trap", "vacant"}

\* -------------------------------------------------------------- odv_index
\* const T* key + offset: the symbols from position `offset` on
KeyFrom(key, offset) == SubSeq(key, offset + 1, Len(key))

\* a bucket count one too small for even ranges
get_proper_buckets_low(range) == ((range + 1) % (UINT32_MAX + 1)) \div 2

\* a bucket count one more than the code's
get_proper_buckets_high(range) == ((range + 5) % (UINT32_MAX + 1)) \div 2

get_proper_buckets(range) == ((range + 3) % (UINT32_MAX + 1)) \div 2

make_vertical_code(key, length, level) ==
    {j \in 0..(length - 1) : BitAt(key[j + 1], level) = 1}

make_signature(key, i, m_length, m_del_marker) ==
    [p \in 1..m_length |-> IF p = i + 1 THEN m_del_marker ELSE key[p]]

EmptyOdv ==
    [m_table |-> <<>>, m_ids |-> <<>>, m_signatures |-> <<>>,
     m_length |-> 0, m_del_marker |-> 0]

VacantSlot == [sig_pos |-> UINT32_MAX, id_beg |-> 0, id_end |-> 0]

\* an id pushed only for a signature's first key
SigMapAddFirstOnly(map, sig, id) ==
    IF \E k \in 1..Len(map) : map[k].sig = sig
    THEN map
    ELSE Append(map, [sig |-> sig, ids |-> <<id>>])

\* signature_map.find(sig) / push_back / insert: entries in first-insertion order
SigMapAdd(map, sig, id) ==
    IF \E k \in 1..Len(map) : map[k].sig = sig
    THEN [k \in 1..Len(map) |->
            IF map[k].sig = sig
            THEN [sig |-> sig, ids |-> Append(map[k].ids, id)]
            ELSE map[k]]
    ELSE Append(map, [sig |-> sig, ids |-> <<id>>])

RECURSIVE BuildSigMap(_, _, _, _, _, _)
BuildSigMap(keys, m_length, m_del_marker, i, j, map) ==
    IF i >= Len(keys) THEN map
    ELSE IF j >= m_length
         THEN BuildSigMap(keys, m_length, m_del_marker, i + 1, 0, map)
         ELSE BuildSigMap(keys, m_length, m_del_marker, i, j + 1,
                  SigMapAdd(map, make_signature(keys[i + 1], j, m_length, m_del_marker), i))

\* the slot linear probing from `pos` reaches first that is vacant
RECURSIVE FindVacant(_, _)
FindVacant(table, pos) ==
    IF table[pos + 1].sig_pos = UINT32_MAX THEN pos
    ELSE FindVacant(table, IF pos + 1 = Len(table) THEN 0 ELSE pos + 1)

\* one pass of `for (const auto& kv : signature_map)`
OdvInsert(odv, kv, width) ==
    LET table_size == Len(odv.m_table)
        pos == FindVacant(odv.m_table, HashMod(fnv1a_hash(kv.sig), table_size))
        sig_beg == Len(odv.m_signatures)
        slot == [sig_pos |-> (sig_beg \div odv.m_length) % (UINT32_MAX + 1),
                 id_beg |-> Len(odv.m_ids),
                 id_end |-> Len(odv.m_ids) + Len(kv.ids)]
    IN  [odv EXCEPT
           !.m_table = [odv.m_table EXCEPT ![pos + 1] = slot],
           !.m_signatures = odv.m_signatures \o
                [p \in 1..Len(kv.sig) |-> IntVecStore(kv.sig[p], width)],
           !.m_ids = odv.m_ids \o kv.ids]

RECURSIVE OdvInsertAll(_, _, _, _)
OdvInsertAll(odv, entries, k, width) ==
    IF k > Len(entries) THEN odv
    ELSE OdvInsertAll(OdvInsert(odv, entries[k], width), entries, k + 1, width)

\* the comparison taken strictly: the symbol alphabet_size itself slips through
HasBadSymbolStrict(keys, length, alphabet_size) ==
    \E i \in 1..Len(keys) : \E j \in 1..length : keys[i][j] > alphabet_size

\* `keys[i][j] >= alphabet_size` at some step of the double loop of odv_index::build
HasBadSymbol(keys, length, alphabet_size) ==
    \E i \in 1..Len(keys) : \E j \in 1..length : keys[i][j] >= alphabet_size

\* odv_index::build: [err, odv]; err is "ok" or the diagnostic the build exits with
odv_index_build(keys, length, alphabet_size, order) ==
    IF alphabet_size = UINT32_MAX
    THEN [err |-> "alphabet_size is too large", odv |-> EmptyOdv]
    ELSE IF HasBadSymbol(keys, length, alphabet_size)
    THEN [err |-> "keys include a character no less than alphabet_size", odv |-> EmptyOdv]
    ELSE LET signature_map == BuildSigMap(keys, length, alphabet_size, 0, 0, <<>>)
             table_size == (Len(signature_map) * LoadFactorNum) \div LoadFactorDen
             start == [m_table |-> [p \in 1..table_size |-> VacantSlot],
                       m_ids |-> <<>>, m_signatures |-> <<>>,
                       m_length |-> length, m_del_marker |-> alphabet_size]
         IN  IF Len(signature_map) > UINT32_MAX
             THEN [err |-> "number of signatures exceeds UINT32_MAX", odv |-> EmptyOdv]
             ELSE [err |-> "ok",
                   odv |-> OdvInsertAll(start, IterOrder(signature_map, order), 1,
                                        bits_hi(alphabet_size) + 1)]

\* std::equal(sig.begin(), sig.end(), m_signatures.begin() + sig_beg)
SigEqualAt(odv, sig, sig_beg) ==
    \A p \in 1..Len(sig) : sig[p] = odv.m_signatures[sig_beg + p]

\* the while (true) loop of odv_index::search for one signature:
\* the ids handed to fn, and whether the loop comes to an end
RECURSIVE OdvProbe(_, _, _, _)
OdvProbe(odv, sig, pos, steps) ==
    IF steps >= Len(odv.m_table) THEN [ids |-> <<>>, ends |-> FALSE, steps |-> steps]
    ELSE LET e == odv.m_table[pos + 1]
         IN  IF e.sig_pos = UINT32_MAX
             THEN [ids |-> <<>>, ends |-> TRUE, steps |-> steps + 1]
             ELSE IF SigEqualAt(odv, sig, e.sig_pos * odv.m_length)
             THEN [ids |-> SubSeq(odv.m_ids, e.id_beg + 1, e.id_end),
                   ends |-> TRUE, steps |-> steps + 1]
             ELSE OdvProbe(odv, sig, IF pos + 1 = Len(odv.m_table) THEN 0 ELSE pos + 1,
                           steps + 1)

\* odv_index::search: the ids passed to fn in call order; status is "ok",
\* "divzero" (the table is empty) or "hang" (a probe that never ends)
RECURSIVE OdvSearchFrom(_, _, _, _)
OdvSearchFrom(odv, key, j, out) ==
    IF j >= odv.m_length THEN [status |-> "ok", ids |-> out]
    ELSE IF Len(odv.m_table) = 0 THEN [status |-> "divzero", ids |-> out]
    ELSE LET sig == make_signature(key, j, odv.m_length, odv.m_del_marker)
             r == OdvProbe(odv, sig, HashMod(fnv1a_hash(sig), Len(odv.m_table)), 0)
         IN  IF ~r.ends THEN [status |-> "hang", ids |-> out]
             ELSE OdvSearchFrom(odv, key, j + 1, out \o r.ids)

odv_index_search(odv, key) == OdvSearchFrom(odv, key, 0, <<>>)


\* --------------------------------------------------------------- hm_index
EmptyIndex ==
    [m_odv_indexes |-> <<>>, m_bucket_begs |-> <<>>, m_length |-> 0,
     m_alphabet_size |-> 0, m_buckets |-> 0,
     m_vertical_keys |-> <<>>, m_vertical_levels |-> 0]

\* m_bucket_begs after the planning loop of hm_index::build (entry b is element b+1)
RECURSIVE BucketBegsFrom(_, _, _, _)
BucketBegsFrom(m_length, m_buckets, b, bucket_beg) ==
    IF b >= m_buckets THEN <<bucket_beg>>
    ELSE <<bucket_beg>> \o
         BucketBegsFrom(m_length, m_buckets, b + 1,
                        bucket_beg + ((m_length + b) \div m_buckets))

\* every bucket given the rounded-down width, the remainder left out
BucketBegsNoRemainder(m_length, m_buckets) ==
    [k \in 1..(m_buckets + 1) |-> (k - 1) * (m_length \div m_buckets)]

BucketBegs(m_length, m_buckets) == BucketBegsFrom(m_length, m_buckets, 0, 0)

\* the per-bucket loop of hm_index::build: bucket b's odv_index is built from
\* the keys offset by m_bucket_begs[b]; the first build that fails exits
BuildBuckets(keys, begs, alphabet_size, order) ==
    LET built == [b \in 1..(Len(begs) - 1) |->
                    odv_index_build([i \in 1..Len(keys) |-> KeyFrom(keys[i], begs[b])],
                                    begs[b + 1] - begs[b], alphabet_size, order)]
        failed == {b \in DOMAIN built : built[b].err # "ok"}
    IN  IF failed = {}
        THEN [err |-> "ok", odvs |-> [b \in DOMAIN built |-> built[b].odv]]
        ELSE [err |-> built[CHOOSE b \in failed : \A c \in failed : b <= c].err,
              odvs |-> <<>>]

\* one plane too few for the symbols below alphabet_size
VerticalLevelsLow(alphabet_size) == bits_hi(alphabet_size)

\* m_vertical_levels = sdsl::bits::hi(alphabet_size) + 1
VerticalLevels(alphabet_size) == bits_hi(alphabet_size) + 1

\* m_vertical_keys: entry i * m_vertical_levels + j, an int_vector of width m_length
VerticalKeys(keys, m_length, levels) ==
    [k \in 1..(Len(keys) * levels) |->
        make_vertical_code(keys[((k - 1) \div levels) + 1], m_length, (k - 1) % levels)
            \cap (0..(m_length - 1))]

\* hm_index::build: [err, index]
hm_index_build(keys, length, alphabet_size, buckets, order) ==
    IF length > LengthLimit
    THEN [err |-> "length > 64 is not supported", index |-> EmptyIndex]
    ELSE LET begs == BucketBegs(length, buckets)
             r == BuildBuckets(keys, begs, alphabet_size, order)
             levels == VerticalLevels(alphabet_size)
         IN  IF r.err # "ok" THEN [err |-> r.err, index |-> EmptyIndex]
             ELSE [err |-> "ok",
                   index |-> [m_odv_indexes |-> r.odvs,
                              m_bucket_begs |-> begs,
                              m_length |-> length,
                              m_alphabet_size |-> alphabet_size,
                              m_buckets |-> buckets,
                              m_vertical_keys |-> VerticalKeys(keys, length, levels),
                              m_vertical_levels |-> levels]]

\* the lambda given to odv_index::search: match_map as [id, count] entries
\* in first-insertion order
RECURSIVE CountMatches(_, _, _)
CountMatches(ids, k, match_map) ==
    IF k > Len(ids) THEN match_map
    ELSE CountMatches(ids, k + 1,
            IF \E e \in 1..Len(match_map) : match_map[e].id = ids[k]
            THEN [e \in 1..Len(match_map) |->
                    IF match_map[e].id = ids[k]
                    THEN [id |-> ids[k], count |-> match_map[e].count + 1]
                    ELSE match_map[e]]
            ELSE Append(match_map, [id |-> ids[k], count |-> 1]))

\* kv.second > 2 ? 0 : 1
RangeCode(count) == IF count > 2 THEN 0 ELSE 1

\* `for (const auto& kv : match_map)`: fold one bucket into cand_map
RECURSIVE FoldMatches(_, _, _)
FoldMatches(matches, k, cand_map) ==
    IF k > Len(matches) THEN cand_map
    ELSE FoldMatches(matches, k + 1,
            IF \E e \in 1..Len(cand_map) : cand_map[e].id = matches[k].id
            THEN [e \in 1..Len(cand_map) |->
                    IF cand_map[e].id = matches[k].id
                    THEN [id |-> cand_map[e].id,
                          range_vec |-> Append(cand_map[e].range_vec,
                                               RangeCode(matches[k].count))]
                    ELSE cand_map[e]]
            ELSE Append(cand_map, [id |-> matches[k].id,
                                   range_vec |-> <<RangeCode(matches[k].count)>>]))

\* one pass of the bucket loop of hm_index::search
SearchBucket(index, query, b, cand_map, order) ==
    LET r == odv_index_search(index.m_odv_indexes[b + 1],
                              KeyFrom(query, index.m_bucket_begs[b + 1]))
    IN  [status |-> r.status,
         cand_map |-> FoldMatches(IterOrder(CountMatches(r.ids, 1, <<>>), order),
                                  1, cand_map)]

\* the enhanced filter
Filtered(range_vec, hamming_range) ==
    IF hamming_range % 2 = 0
    THEN Len(range_vec) < 2 /\ range_vec[1] = 1
    ELSE Len(range_vec) < 3
         /\ (Len(range_vec) = 1 \/ (range_vec[1] = 1 /\ range_vec[2] = 1))

\* the plane loop with its early exit: hammina_dist when the loop is left
RECURSIVE VerticalDist(_, _, _, _, _, _)
VerticalDist(index, vertical_query, beg, hamming_range, j, cumdiff) ==
    IF j >= index.m_vertical_levels THEN Cardinality(cumdiff)
    ELSE LET stored == index.m_vertical_keys[beg + j + 1]
             diff == (stored \ vertical_query[j + 1]) \cup (vertical_query[j + 1] \ stored)
             cum == cumdiff \cup diff
         IN  IF Cardinality(cum) > hamming_range THEN Cardinality(cum)
             ELSE VerticalDist(index, vertical_query, beg, hamming_range, j + 1, cum)

Verify(index, query, cand_id, hamming_range) ==
    LET vertical_query ==
            [j \in 1..index.m_vertical_levels |->
                make_vertical_code(query, index.m_length, j - 1)]
    IN  VerticalDist(index, vertical_query, cand_id * index.m_vertical_levels,
                     hamming_range, 0, {}) <= hamming_range

\* `for (const auto& kv : cand_map)`: the ids given to fn, and how many
\* candidates reached verification
RECURSIVE VerifyAll(_, _, _, _, _, _)
VerifyAll(index, query, hamming_range, cands, k, use_filter) ==
    IF k > Len(cands) THEN [solutions |-> <<>>, verified |-> 0]
    ELSE LET rest == VerifyAll(index, query, hamming_range, cands, k + 1, use_filter)
         IN  IF use_filter /\ Filtered(cands[k].range_vec, hamming_range) THEN rest
             ELSE [solutions |->
                      IF Verify(index, query, cands[k].id, hamming_range)
                      THEN <<cands[k].id>> \o rest.solutions
                      ELSE rest.solutions,
                   verified |-> rest.verified + 1]

\* the bucket loop: [status, cand_map, probed]
RECURSIVE SearchBuckets(_, _, _, _, _, _)
SearchBuckets(index, query, b, cand_map, order, divzero) ==
    IF b >= index.m_buckets THEN [status |-> "ok", cand_map |-> cand_map, probed |-> b]
    ELSE LET r == SearchBucket(index, query, b, cand_map, order)
         IN  IF r.status = "hang"
             THEN [status |-> "hang", cand_map |-> r.cand_map, probed |-> b + 1]
             ELSE IF r.status = "divzero" /\ divzero = "trap"
             THEN [status |-> "killed", cand_map |-> r.cand_map, probed |-> b + 1]
             ELSE SearchBuckets(index, query, b + 1, r.cand_map, order, divzero)

\* hm_index::search past its range check
SearchBody(index, query, hamming_range, order, divzero, use_filter) ==
         LET r == SearchBuckets(index, query, 0, <<>>, order, divzero)
             v == VerifyAll(index, query, hamming_range,
                            IterOrder(r.cand_map, order), 1, use_filter)
         IN  IF r.status # "ok"
             THEN [status |-> r.status, cand_map |-> r.cand_map, probed |-> r.probed,
                   solutions |-> <<>>, verified |-> 0]
             ELSE [status |-> "ok", cand_map |-> r.cand_map, probed |-> r.probed,
                   solutions |-> v.solutions, verified |-> v.verified]

\* the search without its range check
hm_index_search_unchecked(index, query, hamming_range, order, divzero) ==
    SearchBody(index, query, hamming_range, order, divzero, TRUE)

\* hm_index::search: status "ok", "unsupported hamming range" (exit before
\* anything is probed), "killed" or "hang"
hm_index_search(index, query, hamming_range, order, divzero) ==
    IF index.m_buckets # get_proper_buckets(hamming_range)
    THEN [status |-> "unsupported hamming range", cand_map |-> <<>>, probed |-> 0,
          solutions |-> <<>>, verified |-> 0]
    ELSE SearchBody(index, query, hamming_range, order, divzero, TRUE)


\* ---------------------------------------------------------- serialization
\* The stream is the sequence of the values written.  sdsl writes a
\* std::vector as its size and then its elements, an int_vector<> as its size
\* in bits, its width and then its elements, and a number as itself.
RECURSIVE BitsToInt(_)
BitsToInt(bits) ==
    IF bits = {} THEN 0
    ELSE LET j == CHOOSE k \in bits : TRUE IN 2^j + BitsToInt(bits \ {j})

IntToBits(v, width) == {j \in 0..(width - 1) : BitAt(v, j) = 1}

RECURSIVE Flatten(_)
Flatten(ss) == IF Len(ss) = 0 THEN <<>> ELSE Head(ss) \o Flatten(Tail(ss))

SignatureWidth(odv) == bits_hi(odv.m_del_marker) + 1

odv_index_serialize(odv) ==
    <<Len(odv.m_table)>>
    \o Flatten([k \in 1..Len(odv.m_table) |->
                  <<odv.m_table[k].sig_pos, odv.m_table[k].id_beg, odv.m_table[k].id_end>>])
    \o <<Len(odv.m_ids)>> \o odv.m_ids
    \o <<Len(odv.m_signatures) * SignatureWidth(odv), SignatureWidth(odv)>>
    \o odv.m_signatures
    \o <<odv.m_length, odv.m_del_marker>>

hm_index_serialize(idx) ==
    <<Len(idx.m_odv_indexes)>>
    \o Flatten([b \in 1..Len(idx.m_odv_indexes) |-> odv_index_serialize(idx.m_odv_indexes[b])])
    \o <<Len(idx.m_bucket_begs)>> \o idx.m_bucket_begs
    \o <<idx.m_length, idx.m_alphabet_size, idx.m_buckets>>
    \o <<Len(idx.m_vertical_keys) * idx.m_length, idx.m_length>>
    \o [k \in 1..Len(idx.m_vertical_keys) |-> BitsToInt(idx.m_vertical_keys[k])]
    \o <<idx.m_vertical_levels>>

\* odv_index::load from position pos of the stream: [odv, pos]
odv_index_load(in, pos) ==
    LET n == in[pos]
        table == [k \in 1..n |->
                    [sig_pos |-> in[pos + 3 * (k - 1) + 1],
                     id_beg |-> in[pos + 3 * (k - 1) + 2],
                     id_end |-> in[pos + 3 * (k - 1) + 3]]]
        p2 == pos + 1 + 3 * n
        m == in[p2]
        p3 == p2 + 1 + m
        width == in[p3 + 1]
        cnt == in[p3] \div width
        p4 == p3 + 2 + cnt
    IN  [odv |-> [m_table |-> table,
                  m_ids |-> SubSeq(in, p2 + 1, p2 + m),
                  m_signatures |-> [k \in 1..cnt |-> IntVecStore(in[p3 + 1 + k], width)],
                  m_length |-> in[p4],
                  m_del_marker |-> in[p4 + 1]],
         pos |-> p4 + 2]

RECURSIVE LoadOdvs(_, _, _, _)
LoadOdvs(in, pos, n, done) ==
    IF n = 0 THEN [odvs |-> done, pos |-> pos]
    ELSE LET r == odv_index_load(in, pos)
         IN  LoadOdvs(in, r.pos, n - 1, Append(done, r.odv))

\* m_alphabet_size read before m_length
LoadScalarsSwapped(in, pos) ==
    [m_length |-> in[pos + 1], m_alphabet_size |-> in[pos], m_buckets |-> in[pos + 2]]

\* sdsl::load(m_length, in); sdsl::load(m_alphabet_size, in); sdsl::load(m_buckets, in)
LoadScalars(in, pos) ==
    [m_length |-> in[pos], m_alphabet_size |-> in[pos + 1], m_buckets |-> in[pos + 2]]

hm_index_load(in) ==
    LET o == LoadOdvs(in, 2, in[1], <<>>)
        nb == in[o.pos]
        p2 == o.pos + 1 + nb
        sc == LoadScalars(in, p2)
        p3 == p2 + 3
        width == in[p3 + 1]
        cnt == in[p3] \div width
    IN  [m_odv_indexes |-> o.odvs,
         m_bucket_begs |-> SubSeq(in, o.pos + 1, o.pos + nb),
         m_length |-> sc.m_length,
         m_alphabet_size |-> sc.m_alphabet_size,
         m_buckets |-> sc.m_buckets,
         m_vertical_keys |-> [k \in 1..cnt |-> IntToBits(in[p3 + 1 + k], width)],
         m_vertical_levels |-> in[p3 + 2 + cnt]]

\* ------------------------------------------------------- the brute-force scan
\* compute_hamming_distance without its early break
Hamming(a, b) == Cardinality({p \in 1..Len(a) : a[p] # b[p]})

\* true_solutions of the test driver: ids in ascending order
RECURSIVE TrueSolutionsFrom(_, _, _, _)
TrueSolutionsFrom(ks, query, hamming_range, i) ==
    IF i >= Len(ks) THEN <<>>
    ELSE (IF Hamming(ks[i + 1], query) <= hamming_range THEN <<i>> ELSE <<>>)
         \o TrueSolutionsFrom(ks, query, hamming_range, i + 1)

TrueSolutions(ks, query, hamming_range) == TrueSolutionsFrom(ks, query, hamming_range, 0)

\* std::sort(solutions.begin(), solutions.end())
RECURSIVE Sorted(_)
Sorted(s) ==
    IF Len(s) = 0 THEN <<>>
    ELSE LET m == CHOOSE k \in 1..Len(s) : \A l \in 1..Len(s) : s[k] <= s[l]
         IN  <<s[m]>> \o Sorted(SubSeq(s, 1, m - 1) \o SubSeq(s, m + 1, Len(s)))

SeqSet(s) == {s[k] : k \in 1..Len(s)}

\* ------------------------------------------------------------------ inputs
Sigmas == {0, 1, 2, 3, UINT32_MAX}

\* bucket counts given to build: up to what the largest range asks for
MaxBuckets == get_proper_buckets(MaxRange)

PrefixKey(L, j, v) == [p \in 1..L |-> IF p <= j THEN v ELSE 0]
SuffixKey(L, j, v) == [p \in 1..L |-> IF p > L - j THEN v ELSE 0]
SpikeKey(L, q, v) == [p \in 1..L |-> IF p = q THEN v ELSE 0]

\* how many non-zero symbol values the enumerated keys use
NonZero(sigma) == IF sigma <= 1 THEN 0 ELSE Min(sigma, 3) - 1

\* the keys the collections are drawn from, in a fixed order: the zero key,
\* then v^j 0^(L-j) for every non-zero symbol v < sigma, then two keys that
\* hold the symbol sigma itself (first and last position)
MasterKeys(L, sigma) ==
    (IF sigma >= 1 THEN <<PrefixKey(L, 0, 0)>> ELSE <<>>)
    \o [k \in 1..(L * NonZero(sigma)) |->
            PrefixKey(L, ((k - 1) % L) + 1, ((k - 1) \div L) + 1)]
    \o <<SpikeKey(L, 1, sigma), SpikeKey(L, L, sigma)>>

\* collections of up to MaxKeys keys: master[i], master[i+d], master[i+2d], ...
KeyLists(L, sigma) ==
    LET master == MasterKeys(L, sigma)
    IN  {[k \in 1..n |-> master[i + (k - 1) * d]] :
            <<n, i, d>> \in {t \in (0..MaxKeys) \X (1..Len(master)) \X (0..2) :
                               t[1] = 0 \/ t[2] + (t[1] - 1) * t[3] <= Len(master)}}

\* the key collection of the documented scenarios 1 and 2
ScenarioKeys == << <<0, 0, 0, 0>>, <<1, 1, 1, 1>>, <<1, 0, 0, 0>>, <<0, 1, 1, 1>> >>

Inputs ==
    {[keys |-> ScenarioKeys, length |-> Len(ScenarioKeys[1]), alphabet_size |-> 2]}
    \cup {[keys |-> <<>>, length |-> LengthLimit + 1, alphabet_size |-> 2]}
    \cup UNION {
        {[keys |-> ks, length |-> L, alphabet_size |-> sigma] : ks \in KeyLists(L, sigma)} :
        <<L, sigma>> \in (1..MaxLen) \X Sigmas}

Queries(L, sigma) ==
    {SuffixKey(L, j, v) : j \in 0..L, v \in 0..(Min(sigma, 3) - 1)}

\* ------------------------------------------------------------------- state
VARIABLES
    keys,           \* the caller's key collection
    length,         \* its key length
    alphabet_size,  \* its alphabet size
    buckets,        \* the bucket count it gives to build, 0 before
    order,          \* the iteration order of the platform's unordered_map
    phase,          \* "start", "built", or "exited" (the process called exit or was killed)
    diag,           \* the diagnostic of the exit, "none" before
    index,          \* the hm_index
    call,           \* the search call in progress or just finished
    stream,         \* what serialize wrote, empty before
    loaded,         \* a second hm_index, filled by load
    th              \* the searches of the concurrent callers, one per thread

vars == <<keys, length, alphabet_size, buckets, order, phase, diag, index, call, stream, loaded, th>>

Threads == {1, 2}

IdleThread ==
    [pc |-> "idle", query |-> <<>>, range |-> 0, b |-> 0, cand_map |-> <<>>,
     solutions |-> <<>>, verified |-> 0]

NoCall ==
    [state |-> "idle", query |-> <<>>, range |-> 0, cand_map |-> <<>>,
     probed |-> 0, solutions |-> <<>>, verified |-> 0]

InitWith(inputs) ==
    /\ \E in \in inputs :
        /\ keys = in.keys
        /\ length = in.length
        /\ alphabet_size = in.alphabet_size
    /\ buckets = 0
    /\ order \in IterOrders
    /\ phase = "start"
    /\ diag = "none"
    /\ index = EmptyIndex
    /\ call = NoCall
    /\ stream = <<>>
    /\ loaded = EmptyIndex
    /\ th = [t \in Threads |-> IdleThread]

Init == InitWith(Inputs)

\* index->build(keys, length, alphabet_size, buckets)
Build(b) ==
    /\ phase = "start"
    /\ buckets' = b
    /\ LET r == hm_index_build(keys, length, alphabet_size, b, order)
       IN  /\ phase' = IF r.err = "ok" THEN "built" ELSE "exited"
           /\ diag' = IF r.err = "ok" THEN "none" ELSE r.err
           /\ index' = r.index
    /\ UNCHANGED <<keys, length, alphabet_size, order, call, stream, loaded, th>>

\* the outcomes of the division the bucket loop would make on this index
DivZeroChoices(idx) ==
    IF \E b \in 1..Len(idx.m_odv_indexes) :
          idx.m_odv_indexes[b].m_length > 0 /\ Len(idx.m_odv_indexes[b].m_table) = 0
    THEN DivZeroOutcomes ELSE {"trap"}

\* solutions.clear(); idx.search(query, hamming_range, push_back)
SearchOn(idx, query, hamming_range) ==
    /\ phase = "built"
    /\ call.state = "idle"
    /\ \E divzero \in DivZeroChoices(idx) :
         LET r == hm_index_search(idx, query, hamming_range, order, divzero)
         IN  /\ call' = [state |-> IF r.status = "ok" THEN "done" ELSE "failed",
                         query |-> query, range |-> hamming_range,
                         cand_map |-> r.cand_map, probed |-> r.probed,
                         solutions |-> r.solutions, verified |-> r.verified]
             /\ phase' = IF r.status = "ok" THEN "built" ELSE "exited"
             /\ diag' = IF r.status = "ok" THEN "none" ELSE r.status
    /\ UNCHANGED <<keys, length, alphabet_size, buckets, order, index, stream, loaded, th>>

Search(query, hamming_range) == SearchOn(index, query, hamming_range)

\* index.serialize(out)
Serialize ==
    /\ phase = "built"
    /\ stream = <<>>
    /\ stream' = hm_index_serialize(index)
    /\ UNCHANGED <<keys, length, alphabet_size, buckets, order, phase, diag, index, call, loaded, th>>

\* other.load(in) on a fresh hm_index, reading what serialize wrote
Load ==
    /\ stream # <<>>
    /\ loaded = EmptyIndex
    /\ loaded' = hm_index_load(stream)
    /\ UNCHANGED <<keys, length, alphabet_size, buckets, order, phase, diag, index, call, stream, th>>

\* a search on the loaded index
SearchLoaded(query, hamming_range) ==
    /\ loaded # EmptyIndex
    /\ SearchOn(loaded, query, hamming_range)

\* the driver's loop goes on to its next query
NextQuery ==
    /\ phase = "built"
    /\ call.state = "done"
    /\ call' = NoCall
    /\ UNCHANGED <<keys, length, alphabet_size, buckets, order, phase, diag, index, stream, loaded, th>>

\* ================================================================== claims
Returned == call.state = "done"
ProperlyBuilt == phase # "start" /\ length <= LengthLimit /\ 1 <= buckets /\ buckets <= length
WellFormed == ProperlyBuilt /\ alphabet_size >= 2
SomeBadSymbol == \E i \in 1..Len(keys) : \E p \in 1..length : keys[i][p] >= alphabet_size
DiagTooLarge == diag = "alphabet_size is too large"
DiagBadSymbol == diag = "keys include a character no less than alphabet_size"
DiagRange == diag = "unsupported hamming range"

\* C1: whenever a search on an index built with B = get_proper_buckets(r),
\* 1 <= B <= L, returns, the ids it gave to the sink, sorted, are exactly the
\* ascending list of the ids of all keys within Hamming distance r of the query.
C1_Soundness ==
    (Returned /\ WellFormed)
        => Sorted(call.solutions) = TrueSolutions(keys, call.query, call.range)

\* C2: scenario 1: on the four documented keys (L = 4, sigma = 2, B = 2) the
\* search for q = 0000 with r = 1 gives exactly the ids {0, 2} to the sink.
C2_Scenario1 ==
    (Returned /\ keys = ScenarioKeys /\ buckets = 2
        /\ call.query = <<0, 0, 0, 0>> /\ call.range = 1)
        => SeqSet(call.solutions) = {0, 2}

\* C3: pigeonhole coverage: after the bucket loop of a search that returns
\* (B = get_proper_buckets(r), 1 <= B <= L), every key within Hamming distance
\* r of the query has an entry in cand_map.
C3_PigeonholeCoverage ==
    (Returned /\ WellFormed)
        => \A i \in 0..(Len(keys) - 1) :
              Hamming(keys[i + 1], call.query) <= call.range
                  => \E e \in 1..Len(call.cand_map) : call.cand_map[e].id = i

C3_Witness ==
    /\ Returned /\ WellFormed /\ call.range >= 2 /\ call.verified > 0
    /\ \E i \in 0..(Len(keys) - 1) :
          /\ Hamming(keys[i + 1], call.query) = call.range
          /\ \E e \in 1..Len(call.cand_map) : call.cand_map[e].id = i

\* C4: enhanced-filter equivalence: a search that returns delivers the same id
\* set as the same search with the filter skipped, and verifies no more
\* candidates than it.
C4_FilterEquivalence ==
    (Returned /\ WellFormed)
        => LET unfiltered == SearchBody(index, call.query, call.range, order, "vacant", FALSE)
           IN  /\ SeqSet(call.solutions) = SeqSet(unfiltered.solutions)
               /\ call.verified <= unfiltered.verified

\* C5: a search whose range r has get_proper_buckets(r) # B ends the process
\* with the unsupported-range diagnostic, having probed no ODV table and
\* having given no id to the sink.
C5_RadiusMismatch ==
    (call.state # "idle" /\ (call.range + 3) \div 2 # buckets)
        => /\ phase = "exited" /\ call.state = "failed" /\ DiagRange
           /\ call.probed = 0
           /\ call.solutions = <<>>
           /\ call.cand_map = <<>>

C5_Witness ==
    /\ call.state = "failed" /\ DiagRange
    /\ (call.range + 3) \div 2 # buckets
    /\ Len(keys) > 0 /\ call.probed = 0 /\ call.solutions = <<>>

\* C6 as stated: a build with L <= 64 and 1 <= B <= L exits with the
\* invalid-alphabet diagnostic exactly when some key holds a symbol >= sigma.
C6_InvalidAlphabet ==
    ProperlyBuilt => (SomeBadSymbol <=> DiagBadSymbol)

\* C6 amended: a build with L <= 64, 1 <= B <= L and sigma < UINT32_MAX exits
\* with the invalid-alphabet diagnostic exactly when some key holds a symbol
\* >= sigma, and a build that exits so leaves no index behind.
C6_InvalidAlphabetAmended ==
    (ProperlyBuilt /\ alphabet_size < UINT32_MAX)
        => /\ SomeBadSymbol <=> DiagBadSymbol
           /\ DiagBadSymbol => (phase = "exited" /\ index = EmptyIndex)

C6_Witness ==
    /\ ProperlyBuilt /\ alphabet_size >= 2 /\ alphabet_size < UINT32_MAX
    /\ Len(keys) = 2 /\ buckets = 2
    /\ ~(\E p \in 1..length : keys[1][p] >= alphabet_size)
    /\ keys[2][length] >= alphabet_size
    /\ DiagBadSymbol /\ phase = "exited"

\* C7: a build (L <= 64, B >= 1) exits with the alphabet-too-large diagnostic
\* exactly when sigma = UINT32_MAX or sigma <= 1, and yields an index only
\* when 2 <= sigma < UINT32_MAX.
C7_AlphabetTooLarge ==
    (phase # "start" /\ length <= LengthLimit)
        => /\ (alphabet_size = UINT32_MAX \/ alphabet_size <= 1) <=> DiagTooLarge
           /\ index # EmptyIndex => (2 <= alphabet_size /\ alphabet_size < UINT32_MAX)

\* C8: once load has read what serialize wrote, the loaded index equals the
\* serialized one field by field, and a search on the loaded index ends as the
\* same search on the original does: same ids in the same order, same number
\* of verified candidates.
C8_RoundTrip ==
    (loaded # EmptyIndex)
        => /\ loaded = index
           /\ call.state # "idle"
                => \E divzero \in DivZeroChoices(index) :
                      LET r == hm_index_search(index, call.query, call.range, order, divzero)
                      IN  /\ (r.status = "ok") <=> (call.state = "done")
                          /\ r.solutions = call.solutions
                          /\ r.verified = call.verified

C8_Witness ==
    /\ loaded # EmptyIndex /\ loaded = index
    /\ Len(keys) >= 2 /\ alphabet_size = 3 /\ buckets = 2 /\ length >= 3
    /\ call.state = "done" /\ Len(call.solutions) >= 1 /\ call.range = 2

\* C9: searches are read-only and deterministic under concurrency: no step of
\* a search changes the index, and every search that finishes, however its
\* steps were interleaved with those of the other thread, has given the sink
\* the ids, and verified the number of candidates, of the same search run alone.
C9_AloneResult(t) == hm_index_search(index, th[t].query, th[t].range, order, "vacant")

C9_ReadOnlyDeterministic ==
    /\ [](\A t \in Threads :
            th[t].pc = "done"
                => /\ C9_AloneResult(t).status = "ok"
                   /\ C9_AloneResult(t).solutions = th[t].solutions
                   /\ C9_AloneResult(t).verified = th[t].verified)
    /\ [][phase = "built" => index' = index]_vars

C9_Witness ==
    /\ th[1].pc = "done" /\ Len(th[1].solutions) >= 1
    /\ th[2].pc = "buckets" /\ th[2].b >= 1
    /\ th[1].query # th[2].query /\ th[2].cand_map # <<>>

\* C10: bucket partition: after a build with 1 <= B <= L <= 64, m_bucket_begs
\* has B + 1 entries, starts at 0, ends at L and is strictly increasing; the
\* widths sum to L, any two of them differ by at most 1, and bucket b's ODV
\* table is built for width m_bucket_begs[b+1] - m_bucket_begs[b].
RECURSIVE SumSeq(_)
SumSeq(ws) == IF Len(ws) = 0 THEN 0 ELSE Head(ws) + SumSeq(Tail(ws))

BucketWidths == [b \in 1..buckets |-> index.m_bucket_begs[b + 1] - index.m_bucket_begs[b]]

C10_BucketPartition ==
    (phase = "built" /\ 1 <= buckets /\ buckets <= length /\ length <= LengthLimit)
        => /\ Len(index.m_bucket_begs) = buckets + 1
           /\ index.m_bucket_begs[1] = 0
           /\ index.m_bucket_begs[buckets + 1] = length
           /\ \A b \in 1..buckets : BucketWidths[b] >= 1
           /\ SumSeq(BucketWidths) = length
           /\ \A b, c \in 1..buckets : BucketWidths[b] - BucketWidths[c] <= 1
           /\ Len(index.m_odv_indexes) = buckets
           /\ \A b \in 1..buckets : index.m_odv_indexes[b].m_length = BucketWidths[b]

C10_Witness ==
    /\ phase = "built" /\ length = LengthLimit /\ buckets = 6
    /\ index.m_bucket_begs = <<0, 10, 20, 31, 42, 53, 64>>

\* ---- the pigeonhole argument over the buckets of the built index
\* Whether two keys differ at a position depends on no symbol value, so keys
\* over {0, 1} stand for the keys of every alphabet.
BinaryKeys(L) == [1..L -> {0, 1}]

\* Hamming distance of the slices [beg, end) of two keys
SliceHamming(a, q, beg, end) == Cardinality({p \in (beg + 1)..end : a[p] # q[p]})

\* some bucket of the partition has the two slices within distance 1
CloseBucket(begs, a, q) ==
    \E b \in 1..(Len(begs) - 1) : SliceHamming(a, q, begs[b], begs[b + 1]) <= 1

\* every pair of keys within distance r has a close bucket
Pigeonhole(begs, L, r) ==
    \A a, q \in BinaryKeys(L) : Hamming(a, q) <= r => CloseBucket(begs, a, q)

\* a built index no search has been run on yet
BuiltIdle ==
    /\ phase = "built" /\ call.state = "idle"
    /\ 1 <= buckets /\ buckets <= length /\ length <= LengthLimit

\* C11 as stated: an index built with B = get_proper_buckets(r) buckets has
\* the pigeonhole guarantee for r, and one built with get_proper_buckets(r) - 1
\* buckets (at least 1, keys long enough to differ in r + 1 positions) has a
\* pair of keys within distance r with no close bucket.
C11_ProperBucketsMinimum ==
    BuiltIdle =>
        \A r \in 0..(MaxRange + 1) :
            /\ buckets = get_proper_buckets(r) => Pigeonhole(index.m_bucket_begs, length, r)
            /\ (buckets = get_proper_buckets(r) - 1 /\ length > r)
                  => ~Pigeonhole(index.m_bucket_begs, length, r)

\* C11 amended: get_proper_buckets(r) buckets give the pigeonhole guarantee
\* for r; for even r one bucket fewer (at least 1, key length >= r) loses it;
\* for odd r one bucket fewer (at least 1) still has it, so the count is the
\* minimum for even r only.
C11_ProperBucketsAmended ==
    BuiltIdle =>
        \A r \in 0..(MaxRange + 1) :
            /\ buckets = get_proper_buckets(r) => Pigeonhole(index.m_bucket_begs, length, r)
            /\ (buckets = get_proper_buckets(r) - 1 /\ r % 2 = 0 /\ length >= r)
                  => ~Pigeonhole(index.m_bucket_begs, length, r)
            /\ (buckets = get_proper_buckets(r) - 1 /\ r % 2 = 1)
                  => Pigeonhole(index.m_bucket_begs, length, r)

C11_Witness ==
    /\ BuiltIdle /\ length = 3 /\ alphabet_size >= 2 /\ Len(keys) > 0
    /\ buckets = get_proper_buckets(2) - 1 /\ buckets = get_proper_buckets(1) - 1
    /\ ~CloseBucket(index.m_bucket_begs, <<0, 0, 0>>, <<1, 1, 0>>)
    /\ Pigeonhole(index.m_bucket_begs, length, 1)

\* ---- per-bucket contribution codes
\* the code the slice distance of one bucket stands for: 0, 1, or 2 for none
DistanceCode(d) == IF d = 0 THEN 0 ELSE IF d = 1 THEN 1 ELSE 2

\* one code per bucket whose slice distance is at most 1, in bucket order
ExpectedCodes(begs, key, query) ==
    SelectSeq([b \in 1..(Len(begs) - 1) |->
                  DistanceCode(SliceHamming(key, query, begs[b], begs[b + 1]))],
              LAMBDA c : c < 2)

\* cand_map[id], empty when the id has no entry
RangeVecOf(cand_map, id) ==
    IF \E e \in 1..Len(cand_map) : cand_map[e].id = id
    THEN cand_map[CHOOSE e \in 1..Len(cand_map) : cand_map[e].id = id].range_vec
    ELSE <<>>

\* C12: after the bucket loop of a search that returns, cand_map[k] holds, in
\* bucket order, 0 for every bucket where key k's slice equals the query's,
\* 1 for every bucket where the two slices differ in exactly one position, and
\* nothing for the other buckets; a key with no such bucket has no entry.
C12_ContributionCodes ==
    (Returned /\ WellFormed)
        => \A i \in 0..(Len(keys) - 1) :
              RangeVecOf(call.cand_map, i)
                  = ExpectedCodes(index.m_bucket_begs, keys[i + 1], call.query)

\* ---- the ODV table of one bucket
\* the slices bucket b's table was built from (b counts from 1 here)
BucketSlices(b) ==
    [i \in 1..Len(keys) |->
        SubSeq(keys[i], index.m_bucket_begs[b] + 1, index.m_bucket_begs[b + 1])]

\* the distinct signatures of a collection of slices of the given width
SignatureSet(slices, width, marker) ==
    {make_signature(slices[i], j, width, marker) :
        i \in 1..Len(slices), j \in 0..(width - 1)}

NonEmptySlots(odv) ==
    {p \in 1..Len(odv.m_table) : odv.m_table[p].sig_pos # UINT32_MAX}

\* the signature slot p addresses in the signature store
StoredSignature(odv, p) ==
    SubSeq(odv.m_signatures, odv.m_table[p].sig_pos * odv.m_length + 1,
           (odv.m_table[p].sig_pos + 1) * odv.m_length)

\* the positions of m_ids that slot p's range [id_beg, id_end) covers
IdRange(odv, p) == (odv.m_table[p].id_beg + 1)..odv.m_table[p].id_end

OdvTableInvariant(odv, slices) ==
    LET sigs == SignatureSet(slices, odv.m_length, odv.m_del_marker)
        used == NonEmptySlots(odv)
    IN  /\ \A s \in sigs : Cardinality({p \in used : StoredSignature(odv, p) = s}) = 1
        /\ \A p \in used : StoredSignature(odv, p) \in sigs
        /\ Cardinality(used) = Cardinality(sigs)
        /\ Len(odv.m_signatures) = Cardinality(sigs) * odv.m_length
        /\ \A p \in used : odv.m_table[p].sig_pos < Cardinality(sigs)
        /\ \A p, q \in used : p # q => odv.m_table[p].sig_pos # odv.m_table[q].sig_pos
        /\ \A p \in used : /\ odv.m_table[p].id_beg < odv.m_table[p].id_end
                           /\ odv.m_table[p].id_end <= Len(odv.m_ids)
        /\ \A p, q \in used : p # q => IdRange(odv, p) \cap IdRange(odv, q) = {}
        /\ UNION {IdRange(odv, p) : p \in used} = 1..Len(odv.m_ids)
        /\ Len(odv.m_ids) = Len(slices) * odv.m_length
        /\ \A i \in 1..Len(slices), j \in 0..(odv.m_length - 1) :
              \E p \in used :
                 /\ StoredSignature(odv, p)
                        = make_signature(slices[i], j, odv.m_length, odv.m_del_marker)
                 /\ Cardinality({k \in IdRange(odv, p) : odv.m_ids[k] = i - 1}) = 1

\* C13: after a build, in every bucket's ODV table every distinct signature
\* of the bucket's slices sits in exactly one non-empty slot, the slots address
\* distinct signatures of the store, their id ranges are disjoint and cover
\* m_ids, and m_ids has N * L_b entries, one per (key id, deleted position)
\* in the range of that signature's slot.
C13_OdvTableInvariant ==
    phase = "built"
        => \A b \in 1..Len(index.m_odv_indexes) :
              /\ index.m_odv_indexes[b].m_length
                    = index.m_bucket_begs[b + 1] - index.m_bucket_begs[b]
              /\ OdvTableInvariant(index.m_odv_indexes[b], BucketSlices(b))

C13_Witness ==
    /\ phase = "built" /\ Len(keys) = 2 /\ buckets = 2 /\ length = 4
    /\ \E b \in 1..2 :
          LET odv == index.m_odv_indexes[b]
          IN  /\ \E p \in NonEmptySlots(odv) : odv.m_table[p].id_end - odv.m_table[p].id_beg = 2
              /\ Cardinality(NonEmptySlots(odv)) = 3
              /\ Len(odv.m_table) = 4
              /\ OdvTableInvariant(odv, BucketSlices(b))

\* ---- the ODV probe
\* how many of the query slice's signatures equal the slice's at the same
\* deleted position
SharedSignatures(slice, query_slice, width, marker) ==
    Cardinality({j \in 0..(width - 1) :
        make_signature(slice, j, width, marker)
            = make_signature(query_slice, j, width, marker)})

\* odv_index::search on bucket b's slice of the query is an exact lookup:
\* it comes to an end, every probe within Len(m_table) slots, and has passed
\* id i to the sink once per signature the query slice shares with slice i
ProbeExact(odv, slices, query_slice) ==
    LET r == odv_index_search(odv, query_slice)
    IN  /\ r.status = "ok"
        /\ \A j \in 0..(odv.m_length - 1) :
              LET sig == make_signature(query_slice, j, odv.m_length, odv.m_del_marker)
                  probe == OdvProbe(odv, sig,
                                    HashMod(fnv1a_hash(sig), Len(odv.m_table)), 0)
              IN  probe.ends /\ probe.steps <= Len(odv.m_table)
        /\ \A k \in 1..Len(r.ids) : r.ids[k] \in 0..(Len(slices) - 1)
        /\ \A i \in 1..Len(slices) :
              Cardinality({k \in 1..Len(r.ids) : r.ids[k] = i - 1})
                  = SharedSignatures(slices[i], query_slice, odv.m_length, odv.m_del_marker)

\* C14: a search that passes its range check on an index of N >= 0 keys with
\* every bucket at least 1 wide runs to its end, and in every bucket the ODV
\* probe is a terminating, exact lookup of the query slice's signatures.
C14_ProbeTerminatesExact ==
    (call.state # "idle" /\ ~DiagRange /\ WellFormed)
        => /\ call.state = "done"
           /\ \A b \in 1..buckets :
                 ProbeExact(index.m_odv_indexes[b], BucketSlices(b),
                            SubSeq(call.query, index.m_bucket_begs[b] + 1,
                                   index.m_bucket_begs[b + 1]))

\* ---- vertical verification
\* the stored plane j of key id i
StoredPlane(i, j) == index.m_vertical_keys[i * index.m_vertical_levels + j + 1]

\* cumdiff after the planes 0..jstar of key id i and the query were xor-ed in
CumDiff(i, query, jstar) ==
    UNION {(StoredPlane(i, j) \ make_vertical_code(query, index.m_length, j))
              \cup (make_vertical_code(query, index.m_length, j) \ StoredPlane(i, j)) :
           j \in 0..jstar}

\* C15: on a built index, bit p of every stored plane j of every key is bit j
\* of the key's symbol p and no plane has a bit at L or above; for the query
\* of a search that returned, the popcount of cumdiff after planes 0..j* is
\* the number of positions where key and query differ in a bit of levels
\* 0..j*, and the plane loop accepts a key exactly when its Hamming distance
\* to the query is at most r, as the symbol-by-symbol comparison does.
C15_VerticalExact ==
    (Returned /\ WellFormed)
        => /\ index.m_vertical_levels >= 1
           /\ Len(index.m_vertical_keys) = Len(keys) * index.m_vertical_levels
           /\ \A i \in 0..(Len(keys) - 1) :
                 /\ \A j \in 0..(index.m_vertical_levels - 1) :
                       /\ StoredPlane(i, j) \subseteq 0..(length - 1)
                       /\ StoredPlane(i, j) = make_vertical_code(keys[i + 1], length, j)
                       /\ \A p \in 0..(length - 1) :
                             (p \in StoredPlane(i, j)) <=> (BitAt(keys[i + 1][p + 1], j) = 1)
                       /\ Cardinality(CumDiff(i, call.query, j))
                             = Cardinality({p \in 1..length :
                                  \E l \in 0..j : BitAt(keys[i + 1][p], l)
                                                    # BitAt(call.query[p], l)})
                 /\ Verify(index, call.query, i, call.range)
                       <=> (Hamming(keys[i + 1], call.query) <= call.range)

C15_Witness ==
    /\ Returned /\ WellFormed /\ alphabet_size = 3 /\ call.range >= 1
    /\ \E i \in 0..(Len(keys) - 1) :
          /\ i \in SeqSet(call.solutions)
          /\ Hamming(keys[i + 1], call.query) >= 1
          /\ \E p \in 1..length : keys[i + 1][p] = 2
    /\ \E i \in 0..(Len(keys) - 1) :
          /\ Hamming(keys[i + 1], call.query) > call.range
          /\ ~Verify(index, call.query, i, call.range)

\* ---- ODV table capacity
\* ceil(U * 1.5)
CeilLoad(U) == (U * LoadFactorNum + LoadFactorDen - 1) \div LoadFactorDen

\* C16: after a build (1 <= B <= L, sigma >= 2), every bucket's slot array
\* has exactly ceil(1.5 * U) slots for its U distinct signatures, and for
\* U >= 1 it has more slots than signatures and a vacant slot is left.
C16_TableCapacity ==
    (phase = "built" /\ WellFormed)
        => \A b \in 1..buckets :
              LET odv == index.m_odv_indexes[b]
                  U == Cardinality(SignatureSet(BucketSlices(b), odv.m_length,
                                                odv.m_del_marker))
              IN  /\ Len(odv.m_table) = CeilLoad(U)
                  /\ U >= 1 => /\ Len(odv.m_table) > U
                               /\ \E p \in 1..Len(odv.m_table) :
                                     odv.m_table[p].sig_pos = UINT32_MAX

Next ==
    \/ \E b \in 1..MaxBuckets : Build(b)
    \/ \E query \in Queries(length, alphabet_size), hamming_range \in 0..MaxRange :
          Search(query, hamming_range)
    \/ NextQuery

Spec == Init /\ [][Next]_vars

\* ------------------------------------------------ serialize, load, search
InputsSer ==
    {[keys |-> ScenarioKeys, length |-> Len(ScenarioKeys[1]), alphabet_size |-> 2]}
    \cup UNION {
        {[keys |-> ks, length |-> L, alphabet_size |-> sigma] :
            ks \in {l \in KeyLists(L, sigma) : ~HasBadSymbol(l, L, sigma)}} :
        <<L, sigma>> \in (1..MaxLen) \X {2, 3}}

InitSer == InitWith(InputsSer)

NextSer ==
    \/ \E b \in 1..MaxBuckets : Build(b)
    \/ Serialize
    \/ Load
    \/ \E query \in Queries(length, alphabet_size), hamming_range \in 0..MaxRange :
          SearchLoaded(query, hamming_range)
    \/ NextQuery

SpecSer == InitSer /\ [][NextSer]_vars

\* ------------------------------------------------------ concurrent searches
\* Each thread runs hm_index::search on the one index, a step at a time: the
\* range check, one pass of the bucket loop per step, then the candidate loop.

\* every call's scratch held in one place, as static locals would be
ScratchOwnerShared(t) == 1

\* sig, match_map and cand_map are locals of the call: each thread has its own
ScratchOwner(t) == t

Begin(t, query, hamming_range) ==
    /\ phase = "built"
    /\ th[t].pc = "idle"
    /\ IF index.m_buckets # get_proper_buckets(hamming_range)
       THEN /\ phase' = "exited"
            /\ diag' = "unsupported hamming range"
            /\ th' = [th EXCEPT ![t].pc = "failed", ![t].query = query,
                                ![t].range = hamming_range]
       ELSE /\ th' = [th EXCEPT ![t] = [IdleThread EXCEPT !.pc = "buckets",
                                                          !.query = query,
                                                          !.range = hamming_range],
                                ![ScratchOwner(t)].cand_map = <<>>]
            /\ UNCHANGED <<phase, diag>>
    /\ UNCHANGED <<keys, length, alphabet_size, buckets, order, index, call, stream, loaded>>

BucketStep(t) ==
    /\ phase = "built"
    /\ th[t].pc = "buckets"
    /\ LET o == ScratchOwner(t)
           r == SearchBucket(index, th[t].query, th[t].b, th[o].cand_map, order)
       IN  \E divzero \in (IF r.status = "divzero" THEN DivZeroOutcomes ELSE {"vacant"}) :
             IF r.status = "hang" \/ (r.status = "divzero" /\ divzero = "trap")
             THEN /\ phase' = "exited"
                  /\ diag' = IF r.status = "hang" THEN "hang" ELSE "killed"
                  /\ th' = [th EXCEPT ![t].pc = "failed"]
             ELSE /\ th' = [th EXCEPT ![o].cand_map = r.cand_map,
                                      ![t].b = th[t].b + 1,
                                      ![t].pc = IF th[t].b + 1 >= index.m_buckets
                                                THEN "verify" ELSE "buckets"]
                  /\ UNCHANGED <<phase, diag>>
    /\ UNCHANGED <<keys, length, alphabet_size, buckets, order, index, call, stream, loaded>>

VerifyStep(t) ==
    /\ phase = "built"
    /\ th[t].pc = "verify"
    /\ LET v == VerifyAll(index, th[t].query, th[t].range,
                          IterOrder(th[ScratchOwner(t)].cand_map, order), 1, TRUE)
       IN  th' = [th EXCEPT ![t].solutions = v.solutions,
                            ![t].verified = v.verified,
                            ![t].pc = "done"]
    /\ UNCHANGED <<keys, length, alphabet_size, buckets, order, phase, diag, index,
                   call, stream, loaded>>

\* the caller takes the result and is ready for its next search
Again(t) ==
    /\ phase = "built"
    /\ th[t].pc = "done"
    /\ th' = [th EXCEPT ![t] = IdleThread]
    /\ UNCHANGED <<keys, length, alphabet_size, buckets, order, phase, diag, index,
                   call, stream, loaded>>

InputsConc ==
    {[keys |-> ScenarioKeys, length |-> Len(ScenarioKeys[1]), alphabet_size |-> 2]}
    \cup {[keys |-> ks, length |-> MaxLen, alphabet_size |-> 3] :
            ks \in {l \in KeyLists(MaxLen, 3) :
                      Len(l) = MaxKeys /\ l[1] = PrefixKey(MaxLen, 0, 0)
                      /\ ~HasBadSymbol(l, MaxLen, 3)}}

QueriesConc(L) == {SuffixKey(L, j, 1) : j \in 0..2}

InitConc == InitWith(InputsConc)

NextConc ==
    \/ \E b \in 1..MaxBuckets : Build(b)
    \/ \E t \in Threads, query \in QueriesConc(length), hamming_range \in 0..MaxRange :
          Begin(t, query, hamming_range)
    \/ \E t \in Threads : BucketStep(t)
    \/ \E t \in Threads : VerifyStep(t)
    \/ \E t \in Threads : Again(t)

SpecConc == InitConc /\ [][NextConc]_vars

\* ------------------------------------------------------- bucket planning
\* Builds over every key length up to the limit and one past it, with every
\* bucket count up to the same; the plan does not depend on the keys.
InputsPlan ==
    {[keys |-> ks, length |-> L, alphabet_size |-> 2] :
        L \in 1..(LengthLimit + 1), ks \in {<<>>}}

InitPlan == InitWith(InputsPlan)

NextPlan == \E b \in 1..(LengthLimit + 1) : Build(b)

SpecPlan == InitPlan /\ [][NextPlan]_vars
====
